---------------------------- MODULE Spec2Model ----------------------------
(***************************************************************************)
(* A model of src/terrain.py: the permutation-table gradient noise         *)
(* (PerlinNoise), the biome classifier (BiomeGenerator), the density-field *)
(* chunk generator (TerrainGenerator) and the heightmap sector generator   *)
(* (TerrainGeneratorSimple).                                               *)
(*                                                                         *)
(* The module holds one state machine per component.  Each has its own     *)
(* variables, initial condition, actions and specification; the variables  *)
(* of the other components are parked at a fixed value and left unchanged. *)
(*                                                                         *)
(* Real numbers are kept as scaled integers.  An fBm value is a whole      *)
(* number of tenths; every derived quantity carries the denominator that   *)
(* makes the source's arithmetic exact on that grid (stated per operator). *)
(***************************************************************************)
EXTENDS Integers, Sequences, FiniteSets, TLC

VARIABLES
    \* ---- PerlinNoise (src/terrain.py 25-123)
    rand,           \* state of the FastRandom built from the seed
    noise_tbl,      \* the local table of __init__
    perm,           \* self.perm, 512 entries
    i,              \* loop index of the running __init__ loop
    ppc,            \* position inside __init__: fill, shuffle, copy, ready
    weights,        \* self.weights (number of octave weights held)
    hashes,         \* the 8 corner hashes read by the latest noise() call
    \* ---- BiomeGenerator.get_biome_type (169-203)
    temp,           \* temperature, in 1/20
    raw_humidity,   \* get_humidity(x, z), in 1/20
    humidity,       \* humidity * temp, in 1/400
    biome,          \* the value returned
    \* ---- TerrainGenerator.density (364-374)
    den_at,         \* (seed, x, z) the density() calls are made with
    den_y,          \* the y of the latest density() call
    flatten,        \* its flatten factor
    den_out,        \* its result, in 1/80
    \* ---- TerrainGenerator.tri_lerp_d_map (343-354), one 4x4x4 cell of d_map
    d_map,          \* d_map over the cell and its far faces, in 1/64
    cell,           \* (offsetX, offsetY, offsetZ) of the cell
    sampled,        \* the density() samples written by generate_chunk 248-251
    lx, ly, lz,     \* loop indices of tri_lerp_d_map
    lpc,            \* lerp, done
    \* ---- TerrainGenerator.generate_chunk (242-295)
    seed,           \* self.seed
    chunk_pos,      \* (chunk_x, chunk_z): c.x_pos, c.z_pos
    x, z, y,        \* loop indices of the painting loops 257-261
    biome_type,     \* local of the column
    first_block,    \* local of the column
    d_col,          \* d_map[x][.][z] of the column being painted, in 1/5120
    blocks,         \* c.blocks[x][.][z] of the column being painted
    cpc,            \* column, voxel, col_done, done
    \* ---- TerrainGeneratorSimple.generate_sector (464-630)
    BIOME_BLOCK_COUNT,  \* G.BIOME_BLOCK_COUNT
    TERRAIN_CHOICE,     \* G.TERRAIN_CHOICE
    gen,            \* the generator's tunable fields (height_range ... zoom_level)
    world,          \* world[pos]
    sectors,        \* world.sectors
    op              \* the latest operation: where it returned, whether it re-rolled;
                    \* and the history: the sectors painted by a call on them,
                    \* whether TERRAIN_CHOICE is still the one of construction

permVars   == <<rand, noise_tbl, perm, i, ppc, weights, hashes>>
biomeVars  == <<temp, raw_humidity, humidity, biome>>
denVars    == <<den_at, den_y, flatten, den_out>>
lerpVars   == <<d_map, cell, sampled, lx, ly, lz, lpc>>
chunkVars  == <<seed, chunk_pos, x, z, y, biome_type, first_block, d_col, blocks, cpc>>
sectorVars == <<BIOME_BLOCK_COUNT, TERRAIN_CHOICE, gen, world, sectors, op>>
vars == <<permVars, biomeVars, denVars, lerpVars, chunkVars, sectorVars>>

\* what a step of one component leaves alone
notPerm   == <<biomeVars, denVars, lerpVars, chunkVars, sectorVars>>
notBiome  == <<permVars, denVars, lerpVars, chunkVars, sectorVars>>
notDen    == <<permVars, biomeVars, lerpVars, chunkVars, sectorVars>>
notLerp   == <<permVars, biomeVars, denVars, chunkVars, sectorVars>>
notChunk  == <<permVars, biomeVars, denVars, lerpVars, sectorVars>>
notSector == <<permVars, biomeVars, denVars, lerpVars, chunkVars>>

None == 0 - 1          \* Python's None in an integer slot
NoBlock == "None"   \* Python's None in a block slot

\* Bounds of the model.
MaxSeed == 1        \* seeds 0 .. MaxSeed
MaxChunkSeed == 0   \* seeds 0 .. MaxChunkSeed of the generate_chunk machine
FbmMax == 12        \* an fBm value is -FbmMax .. FbmMax tenths

Seeds == 0 .. MaxSeed

Max(a, b) == IF a >= b THEN a ELSE b
Min(a, b) == IF a <= b THEN a ELSE b

-----------------------------------------------------------------------------
(***************************************************************************)
(* PerlinNoise                                                             *)
(***************************************************************************)
PERM_SIZE == 256
OCTAVES == 9

\* utils.FastRandom: a seeded deterministic integer generator (a linear
\* congruential step); randint() advances the state and returns a draw.
FastRandom(s) == s % 65537
FastRandom_next(r) == (75 * r + 74) % 65537
FastRandom_randint(r) == FastRandom_next(r)

\* fast_abs
fast_abs(a) == IF a < 0 THEN -a ELSE a

InitPerm ==
    /\ rand \in {FastRandom(s) : s \in Seeds}
    /\ noise_tbl = [k \in 0 .. PERM_SIZE - 1 |-> None]
    /\ perm = [k \in 0 .. 2 * PERM_SIZE - 1 |-> None]
    /\ i = 0
    /\ ppc = "fill"
    /\ weights = 0
    /\ hashes = <<>>

\* 38-39: noise_tbl[i] = i
FillStep ==
    /\ ppc = "fill"
    /\ noise_tbl' = [noise_tbl EXCEPT ![i] = i]
    /\ IF i + 1 < PERM_SIZE
         THEN i' = i + 1 /\ ppc' = ppc
         ELSE i' = 0 /\ ppc' = "shuffle"
    /\ UNCHANGED <<rand, perm, weights, hashes, notPerm>>

SwapDropped(tbl, a, b) == [tbl EXCEPT ![a] = tbl[b]]

\* 45: noise_tbl[i], noise_tbl[j] = noise_tbl[j], noise_tbl[i]
Swap(tbl, a, b) == [tbl EXCEPT ![a] = tbl[b], ![b] = tbl[a]]

\* 41-45: one round of the shuffle
ShuffleStep ==
    /\ ppc = "shuffle"
    /\ LET r == FastRandom_next(rand)
           j == fast_abs(FastRandom_randint(rand) % PERM_SIZE)
       IN /\ rand' = r
          /\ noise_tbl' = Swap(noise_tbl, i, j)
    /\ IF i + 1 < PERM_SIZE
         THEN i' = i + 1 /\ ppc' = ppc
         ELSE i' = 0 /\ ppc' = "copy"
    /\ UNCHANGED <<perm, weights, hashes, notPerm>>

\* 47-48: self.perm[i] = self.perm[i + 256] = noise_tbl[i]
CopyStep ==
    /\ ppc = "copy"
    /\ perm' = [perm EXCEPT ![i] = noise_tbl[i], ![i + PERM_SIZE] = noise_tbl[i]]
    /\ IF i + 1 < PERM_SIZE
         THEN i' = i + 1 /\ ppc' = ppc
         ELSE i' = 0 /\ ppc' = "ready"
    /\ UNCHANGED <<rand, noise_tbl, weights, hashes, notPerm>>

\* The lattice coordinates int(floor(x)) & 255 the calls are made with.
Lattice == {0, 1, 128, 255}

\* 81-95: the table reads of noise(): the hash of each corner of the cell.
CornerHashes(X, Y, Z) ==
    LET A  == perm[X] + Y
        AA == perm[A] + Z
        AB == perm[A + 1] + Z
        B  == perm[X + 1] + Y
        BA == perm[B] + Z
        BB == perm[B + 1] + Z
    IN <<perm[AA], perm[BA], perm[AB], perm[BB],
         perm[AA + 1], perm[BA + 1], perm[AB + 1], perm[BB + 1]>>

\* 68-95: noise(x, y, z)
noise ==
    /\ ppc = "ready"
    /\ \E X \in Lattice, Y \in Lattice, Z \in Lattice :
          hashes' = CornerHashes(X, Y, Z)
    /\ UNCHANGED <<rand, noise_tbl, perm, i, ppc, weights, notPerm>>

\* 97-114: fBm(x, y, z): the weights are rebuilt (regen_weight is never
\* cleared: line 105 assigns a local), then OCTAVES calls of noise() are made
\* at coordinates scaled by PERSISTENCE per octave (2.1379201, here 2138/1000
\* on coordinates counted in thousandths); the last octave's reads are kept.
RECURSIVE OctaveCoord(_, _)
OctaveCoord(c, n) == IF n = 0 THEN c ELSE OctaveCoord((c * 2138) \div 1000, n - 1)

fBm ==
    /\ ppc = "ready"
    /\ weights' = OCTAVES
    /\ \E X \in {0, 1}, Y \in {0}, Z \in {0, 2} :
          hashes' = CornerHashes((OctaveCoord(X * 1000, OCTAVES - 1) \div 1000) % PERM_SIZE,
                                 (OctaveCoord(Y * 1000, OCTAVES - 1) \div 1000) % PERM_SIZE,
                                 (OctaveCoord(Z * 1000, OCTAVES - 1) \div 1000) % PERM_SIZE)
    /\ UNCHANGED <<rand, noise_tbl, perm, i, ppc, notPerm>>

NextPerm == FillStep \/ ShuffleStep \/ CopyStep \/ noise \/ fBm


-----------------------------------------------------------------------------
(***************************************************************************)
(* The fBm fields.  PerlinNoise(seed).fBm is a fixed function of the seed  *)
(* and the point; the model takes it from a family of fields over the      *)
(* levels -FbmMax .. FbmMax (tenths), one field per generator seed, that   *)
(* takes every level.                                                      *)
(***************************************************************************)
FbmLevels == (0 - FbmMax) .. FbmMax

fBmField(s, a, b, c) == ((7 * s + 3 * a + 5 * b + 11 * c) % (2 * FbmMax + 1)) - FbmMax

-----------------------------------------------------------------------------
(***************************************************************************)
(* BiomeGenerator                                                          *)
(***************************************************************************)
DESERT == "DESERT"
PLAINS == "PLAINS"
SNOW == "SNOW"
MOUNTAINS == "MOUNTAINS"
FOREST == "FOREST"

\* 174-180 (and 356-362): _clamp, on a value counted in 1/20
_clamp(a) == IF a > 20 THEN 20 ELSE IF a < 0 THEN 0 ELSE a

\* 183, 186: clamp((fBm + 1.0) / 2.0) of an fBm value f (tenths), in 1/20
get_humidity(f) == _clamp(f + 10)
get_temperature(f) == _clamp(f + 10)

\* 194-203 with the desert rule's humidity bound made inclusive
classify_desert_inclusive(t, h) ==
    IF t >= 10 /\ h <= 120 THEN DESERT
    ELSE IF 120 <= h /\ h <= 240 /\ t >= 10 THEN PLAINS
    ELSE IF t <= 6 /\ h > 200 THEN SNOW
    ELSE IF 80 <= h /\ h <= 240 /\ t < 10 THEN MOUNTAINS
    ELSE FOREST

\* 194-203: the rule chain; t in 1/20 (0.5 = 10, 0.3 = 6), h in 1/400
\* (0.3 = 120, 0.6 = 240, 0.5 = 200, 0.2 = 80)
classify(t, h) ==
    IF t >= 10 /\ h < 120 THEN DESERT
    ELSE IF 120 <= h /\ h <= 240 /\ t >= 10 THEN PLAINS
    ELSE IF t <= 6 /\ h > 200 THEN SNOW
    ELSE IF 80 <= h /\ h <= 240 /\ t < 10 THEN MOUNTAINS
    ELSE FOREST

\* 188-203 with the raw humidity tested, not humidity * temperature
get_biome_type_raw_humidity(ft, fh) ==
    classify(get_temperature(ft), get_humidity(fh) * 20)

\* 188-203: get_biome_type, from the two generators' fBm values at (x, z)
get_biome_type(ft, fh) ==
    LET t == get_temperature(ft)
        h == get_humidity(fh) * t
    IN classify(t, h)

InitBiome ==
    /\ temp = None
    /\ raw_humidity = None
    /\ humidity = None
    /\ biome = NoBlock

\* a call of get_biome_type at a point where the generators give ft and fh
get_biome_type_call ==
    /\ \E ft \in FbmLevels, fh \in FbmLevels :
          /\ temp' = get_temperature(ft)
          /\ raw_humidity' = get_humidity(fh)
          /\ humidity' = get_humidity(fh) * get_temperature(ft)
          /\ biome' = get_biome_type(ft, fh)
    /\ UNCHANGED notBiome

NextBiome == get_biome_type_call

-----------------------------------------------------------------------------
(***************************************************************************)
(* TerrainGenerator.density                                                *)
(***************************************************************************)
CHUNK_X_SIZE == 16
CHUNK_Z_SIZE == 16
CHUNK_Y_SIZE == 256
SAMPLE_RATE_HOR == 4
SAMPLE_RATE_VER == 4

\* 377: base_terrain, in 1/20
base_terrain(s, wx, wz) == _clamp(fBmField(s, wx, 0, wz) + 10)

\* 380: ocean_terrain = clamp(fBm * 8.0), in 1/20 (f tenths: 0.8 f = 16 f / 20)
ocean_terrain(s, wx, wz) == _clamp(16 * fBmField(s + 11, wx, 0, wz))

\* 383: rive_terrain = clamp((sqrt(|fBm|) - 0.1) * 7.0), in 1/20.  On the
\* tenths grid sqrt(|f|) is 0 at f = 0 and at least sqrt(0.1) > 0.1 + 1/7
\* elsewhere, so the value is 0 or 1.
rive_terrain(s, wx, wz) == IF fBmField(s + 31, wx, 0, wz) = 0 THEN 0 ELSE 20

\* 386-387: mount_density = max(fBm, 0), in tenths
mount_density(s, wx, yy, wz) == Max(fBmField(s + 41, wx, yy, wz), 0)

\* 390-391: hill_density = max(fBm - 0.1, 0), in tenths
hill_density(s, wx, yy, wz) == Max(fBmField(s + 71, wx, yy, wz) - 1, 0)

\* 394: cave_density, in tenths
cave_density(s, wx, yy, wz) == fBmField(s + 141, wx, yy, wz)

\* 372: _clamp(((CHUNK_Y_SIZE - 16) - y) / int(CHUNK_Y_SIZE * 0.10)): the
\* operands are ints, so "/" is Python 2's floor division; the result is 0 or 1.
Flatten(yy) ==
    LET q == ((CHUNK_Y_SIZE - 16) - yy) \div ((CHUNK_Y_SIZE * 10) \div 100)
    IN IF q > 1 THEN 1 ELSE IF q < 0 THEN 0 ELSE q

\* 364-374: density, in 1/80.
\*   (32 + 32 height) = (160 + 8 h20) / 5; clamp(river + 0.25) and
\*   clamp(ocean + 0.25) are whole quarters on the grid (5/20 or 20/20);
\*   mountains * 1024 = 8192 f / 80; hills * 128 = 1024 f / 80.
density(s, wx, yy, wz) ==
    LET height == base_terrain(s, wx, wz)
        ocean == ocean_terrain(s, wx, wz)
        river == rive_terrain(s, wx, wz)
        mountains == mount_density(s, wx, yy, wz)
        hills == hill_density(s, wx, yy, wz)
        rq == _clamp(river + 5) \div 5
        oq == _clamp(ocean + 5) \div 5
    IN (0 - 80 * yy)
         + ((160 + 8 * height) * rq * oq + mountains * 8192 + hills * 1024) * Flatten(yy)

InitDensity ==
    /\ den_at \in Seeds \X {0, 4} \X {0, 8}
    /\ den_y = None
    /\ flatten = None
    /\ den_out = None

\* a call density(x, y, z); generate_chunk calls it with integer arguments
density_call ==
    /\ \E yy \in 0 .. CHUNK_Y_SIZE :
          /\ den_y' = yy
          /\ flatten' = Flatten(yy)
          /\ den_out' = density(den_at[1], den_at[2], yy, den_at[3])
    /\ UNCHANGED <<den_at, notDen>>

NextDensity == density_call

-----------------------------------------------------------------------------
(***************************************************************************)
(* TerrainGenerator.lerp, tri_lerp, tri_lerp_d_map                         *)
(***************************************************************************)
\* A d_map entry is <<>> while init_3d_list's None is in it, <<v>> once set.
NoneD == <<>>

\* 332 with the second weight left undivided
lerp_unnormalised(p, x1, x2, v00, v01) ==
    ((x2 - p) * v00) \div (x2 - x1) + (p - x1) * v01

\* 331-332: lerp.  The sample spacing is 4 and the values are whole numbers
\* of 1/64 (times the sample unit), so three nested divisions are exact.
lerp(p, x1, x2, v00, v01) ==
    ((x2 - p) * v00 + (p - x1) * v01) \div (x2 - x1)

\* 334-341: tri_lerp
tri_lerp(px, py, pz, v000, v001, v010, v011, v100, v101, v110, v111, x1, x2, y1, y2, z1, z2) ==
    LET x00 == lerp(px, x1, x2, v000, v100)
        x10 == lerp(px, x1, x2, v010, v110)
        x01 == lerp(px, x1, x2, v001, v101)
        x11 == lerp(px, x1, x2, v011, v111)
        u == lerp(py, y1, y2, x00, x01)
        v == lerp(py, y1, y2, x10, x11)
    IN lerp(pz, z1, z2, u, v)

\* 347: the test for a sampled point
IsSample(px, py, pz) ==
    px % SAMPLE_RATE_HOR = 0 /\ py % SAMPLE_RATE_VER = 0 /\ pz % SAMPLE_RATE_HOR = 0

\* 348-354: the value tri_lerp_d_map stores at a point that is not a sample,
\* read from the map m (m[<<x, y, z>>] is d_map[x][y][z])
LerpAt(m, px, py, pz) ==
    LET offsetX == (px \div SAMPLE_RATE_HOR) * SAMPLE_RATE_HOR
        offsetY == (py \div SAMPLE_RATE_VER) * SAMPLE_RATE_VER
        offsetZ == (pz \div SAMPLE_RATE_HOR) * SAMPLE_RATE_HOR
    IN tri_lerp(px, py, pz,
                m[<<offsetX, offsetY, offsetZ>>],
                m[<<offsetX, SAMPLE_RATE_VER + offsetY, offsetZ>>],
                m[<<offsetX, offsetY, offsetZ + SAMPLE_RATE_HOR>>],
                m[<<offsetX, offsetY + SAMPLE_RATE_VER, offsetZ + SAMPLE_RATE_HOR>>],
                m[<<SAMPLE_RATE_HOR + offsetX, offsetY, offsetZ>>],
                m[<<SAMPLE_RATE_HOR + offsetX, offsetY + SAMPLE_RATE_VER, offsetZ>>],
                m[<<SAMPLE_RATE_HOR + offsetX, offsetY, offsetZ + SAMPLE_RATE_HOR>>],
                m[<<SAMPLE_RATE_HOR + offsetX, offsetY + SAMPLE_RATE_VER,
                    offsetZ + SAMPLE_RATE_HOR>>],
                offsetX, SAMPLE_RATE_HOR + offsetX, offsetY,
                SAMPLE_RATE_VER + offsetY, offsetZ, offsetZ + SAMPLE_RATE_HOR)

\* The cells of d_map the machine follows: the first, an inner one, and the
\* last, whose far corners lie on the extra sample shell (16, 256, 16).
Cells == {<<0, 0, 0>>, <<4, 128, 8>>,
          <<CHUNK_X_SIZE - 4, CHUNK_Y_SIZE - 4, CHUNK_Z_SIZE - 4>>}

Corners(c) == {<<c[1] + a, c[2] + b, c[3] + d>> : a \in {0, 4}, b \in {0, 4}, d \in {0, 4}}
CellPoints(c) == {<<c[1] + a, c[2] + b, c[3] + d>> : a \in 0 .. 3, b \in 0 .. 3, d \in 0 .. 3}

\* density() values at the samples, in 1/64 of a unit
SampleValues == {0 - 8 * 64, 40 * 64}

\* 246-251: d_map after init_3d_list and the sampling loops, on one cell
InitLerp ==
    /\ cell \in Cells
    /\ sampled \in [Corners(cell) -> SampleValues]
    /\ d_map = [p \in CellPoints(cell) \cup Corners(cell) |->
                   IF p \in Corners(cell) THEN <<sampled[p]>> ELSE NoneD]
    /\ lx = cell[1]
    /\ ly = cell[2]
    /\ lz = cell[3]
    /\ lpc = "lerp"

\* 344-354: one iteration of the innermost loop of tri_lerp_d_map (the
\* iterations of the cell, in the order x, y, z of the source)
tri_lerp_d_map_step ==
    /\ lpc = "lerp"
    /\ d_map' = IF ~IsSample(lx, ly, lz)
                  THEN [d_map EXCEPT ![<<lx, ly, lz>>] =
                          <<LerpAt([p \in Corners(cell) |-> d_map[p][1]], lx, ly, lz)>>]
                  ELSE d_map
    /\ IF lz < cell[3] + 3
         THEN lz' = lz + 1 /\ UNCHANGED <<lx, ly, lpc>>
         ELSE IF ly < cell[2] + 3
           THEN lz' = cell[3] /\ ly' = ly + 1 /\ UNCHANGED <<lx, lpc>>
           ELSE IF lx < cell[1] + 3
             THEN lz' = cell[3] /\ ly' = cell[2] /\ lx' = lx + 1 /\ UNCHANGED lpc
             ELSE lpc' = "done" /\ UNCHANGED <<lx, ly, lz>>
    /\ UNCHANGED <<cell, sampled, notLerp>>

NextLerp == tri_lerp_d_map_step

-----------------------------------------------------------------------------
(***************************************************************************)
(* TerrainGenerator.generate_chunk                                         *)
(*                                                                         *)
(* The painting loops 257-294 run one step per voxel.  No column reads or  *)
(* writes another column of c.blocks or d_map, so the state holds the      *)
(* column being painted: blocks is c.blocks[x][.][z] and d_col is          *)
(* d_map[x][.][z] as the sampling loops 248-251 and tri_lerp_d_map left it.*)
(***************************************************************************)
bed_block == "bed"
water_block == "water"
air_block == "air"
stone_block == "stone"
sand_block == "sand"
grass_block == "grass"
dirt_block == "dirt"
snow_block == "snow"

\* d_map values are in 1/5120: the density unit 1/80 times the 64 of tri_lerp
DEN_UNIT == 80 * SAMPLE_RATE_HOR * SAMPLE_RATE_HOR * SAMPLE_RATE_VER

\* 251: the sample d_map[x][y][z] = density(world x, y, world z)
DSample(s, pos, p) ==
    SAMPLE_RATE_HOR * SAMPLE_RATE_HOR * SAMPLE_RATE_VER
        * density(s, pos[1] + p[1], p[2], pos[3] + p[3])

\* 246-255: d_map[x][y][z] once tri_lerp_d_map has returned.  The corners an
\* interpolation reads are samples, and samples are never overwritten (347),
\* so every read of 351-354 sees the value of 251.
DMap(s, pos, px, py, pz) ==
    IF IsSample(px, py, pz)
      THEN DSample(s, pos, <<px, py, pz>>)
      ELSE LerpAt([p \in Corners(<<(px \div SAMPLE_RATE_HOR) * SAMPLE_RATE_HOR,
                                  (py \div SAMPLE_RATE_VER) * SAMPLE_RATE_VER,
                                  (pz \div SAMPLE_RATE_HOR) * SAMPLE_RATE_HOR>>)
                     |-> DSample(s, pos, p)], px, py, pz)

\* 259 classifying at the column's world position
column_biome_world(s, pos, cx, cz) ==
    get_biome_type(fBmField(s + 97, pos[1] + cx, 0, pos[3] + cz),
                   fBmField(s + 147, pos[1] + cx, 0, pos[3] + cz))

\* 259: biome_type = self.biome_gen.get_biome_type(x, z), x and z the loop
\* indices; 171-172, 183, 186: the generators are seeded seed + 97, seed + 147
column_biome(s, pos, cx, cz) ==
    get_biome_type(fBmField(s + 97, cx, 0, cz), fBmField(s + 147, cx, 0, cz))

\* 302-329: gen_outer_layer: the block it sets (NoBlock: none is set)
gen_outer_layer(yy, fb, bt) ==
    LET depth == fb - yy
    IN IF bt = PLAINS \/ bt = MOUNTAINS \/ bt = FOREST
         THEN IF 28 <= yy /\ yy <= 34 THEN sand_block
              ELSE IF depth = 0 /\ 32 < yy /\ yy < 128 THEN grass_block
              ELSE IF depth > 32 THEN stone_block
              ELSE dirt_block
       ELSE IF bt = SNOW
         THEN IF depth = 0 /\ yy >= 32 THEN snow_block
              ELSE IF depth > 32 THEN stone_block
              ELSE dirt_block
       ELSE IF bt = DESERT
         THEN IF depth > 8 THEN stone_block ELSE sand_block
       ELSE NoBlock

\* 297-300: gen_inner_layer
gen_inner_layer == stone_block

\* 272-294 without the reset of line 294
first_block_no_reset(fb, yy, den) ==
    IF den >= 0 /\ fb = -1 THEN yy ELSE fb

\* 272-294: first_block after the voxel at yy, whose d_map value is den
next_first_block(fb, yy, den) ==
    IF den >= 0
      THEN IF fb = -1 THEN yy ELSE fb
      ELSE -1

Set(cur, b) == IF b = NoBlock THEN cur ELSE b

\* 267-294 with the water of 267-268 placed after the density branches
paint_voxel_water_last(yy, den, cave, fb, bt, cur) ==
    LET solid == IF 0 <= den /\ den < 32 * DEN_UNIT
                   THEN IF cave > -7 THEN Set(cur, gen_outer_layer(yy, fb, bt)) ELSE air_block
                 ELSE IF den >= 32 * DEN_UNIT
                   THEN IF cave > -6 THEN gen_inner_layer ELSE air_block
                 ELSE cur
    IN IF 0 < yy /\ yy <= 32 THEN water_block ELSE solid

\* 267-294: the block of voxel yy after its iteration; cur is the block
\* before it, fb is first_block after 273-274 / 284-285, cave is
\* cave_density (tenths: -0.7 = -7, -0.6 = -6)
paint_voxel(yy, den, cave, fb, bt, cur) ==
    LET w == IF 0 < yy /\ yy <= 32 THEN water_block ELSE cur
    IN IF 0 <= den /\ den < 32 * DEN_UNIT
         THEN IF cave > -7 THEN Set(w, gen_outer_layer(yy, fb, bt)) ELSE air_block
       ELSE IF den >= 32 * DEN_UNIT
         THEN IF cave > -6 THEN gen_inner_layer ELSE air_block
       ELSE w

\* The chunk origins generate_chunk is called with (chunk_x, chunk_y, chunk_z)
ChunkOrigins == {<<0, 0, 0>>, <<16, 0, 16>>}

\* 243, 257: a fresh chunk, before the first column
InitChunk ==
    /\ seed \in 0 .. MaxChunkSeed
    /\ chunk_pos \in ChunkOrigins
    /\ x = 0
    /\ z = 0
    /\ y = None
    /\ biome_type = NoBlock
    /\ first_block = None
    /\ d_col = <<>>
    /\ blocks = <<>>
    /\ cpc = "column"

\* 259-261: the head of a column
StartColumn ==
    /\ cpc = "column"
    /\ biome_type' = column_biome(seed, chunk_pos, x, z)
    /\ first_block' = -1
    /\ d_col' = [k \in 0 .. CHUNK_Y_SIZE - 1 |-> DMap(seed, chunk_pos, x, k, z)]
    /\ blocks' = [k \in 0 .. CHUNK_Y_SIZE - 1 |-> NoBlock]
    /\ y' = CHUNK_Y_SIZE - 1
    /\ cpc' = "voxel"
    /\ UNCHANGED <<seed, chunk_pos, x, z, notChunk>>

\* 261-294: one iteration of "for y in range(CHUNK_Y_SIZE - 1, 0, -1)"
Voxel ==
    /\ cpc = "voxel"
    /\ IF y = 0
         THEN \* 262-264
              /\ blocks' = [blocks EXCEPT ![y] = bed_block]
              /\ cpc' = "col_done"
              /\ UNCHANGED <<y, first_block>>
         ELSE LET den == d_col[y]
                  fb == next_first_block(first_block, y, den)
                  cave == cave_density(seed, chunk_pos[1] + x, y, chunk_pos[3] + z)
              IN /\ blocks' = [blocks EXCEPT
                                 ![y] = paint_voxel(y, den, cave, fb, biome_type, blocks[y])]
                 /\ first_block' = fb
                 /\ IF y - 1 > 0
                      THEN y' = y - 1 /\ cpc' = cpc
                      ELSE y' = y /\ cpc' = "col_done"
    /\ UNCHANGED <<seed, chunk_pos, x, z, biome_type, d_col, notChunk>>

\* 257-258: the next column, or 295: return c
NextColumn ==
    /\ cpc = "col_done"
    /\ IF z + 1 < CHUNK_Z_SIZE
         THEN z' = z + 1 /\ x' = x /\ cpc' = "column"
         ELSE IF x + 1 < CHUNK_X_SIZE
           THEN z' = 0 /\ x' = x + 1 /\ cpc' = "column"
           ELSE z' = z /\ x' = x /\ cpc' = "done"
    /\ UNCHANGED <<seed, chunk_pos, y, biome_type, first_block, d_col, blocks, notChunk>>

NextChunk == StartColumn \/ Voxel \/ NextColumn

-----------------------------------------------------------------------------
(***************************************************************************)
(* TerrainGeneratorSimple.generate_sector                                  *)
(*                                                                         *)
(* The machine follows one vertical stack of sectors (bx = bz = 0).  A     *)
(* sector is named by its height index k; its block origin is (0, 8k, 0).  *)
(* The footprint is SectorWidth x SectorWidth columns (8 x 8 in the        *)
(* source, 551-552): a column is painted from its own x, z alone.          *)
(***************************************************************************)
SectorWidth == 2                     \* columns per side of the footprint

BIOME_BLOCK_TRIGGER == 215           \* G.BIOME_BLOCK_TRIGGER
BIOME_NEGATIVE_BLOCK_TRIGGER == -215 \* G.BIOME_NEGATIVE_BLOCK_TRIGGER

Themes == {"plains", "desert", "mountains", "snow", "island"}

\* 468: new_biomes
new_biomes == {"plains", "desert", "mountains", "snow"}

\* 470: the values self.rand.choice(new_biomes) can return
reroll_choices == new_biomes

\* the values other code leaves in G.BIOME_BLOCK_COUNT between two calls
CounterValues ==
    {BIOME_NEGATIVE_BLOCK_TRIGGER - 1, BIOME_NEGATIVE_BLOCK_TRIGGER,
     BIOME_NEGATIVE_BLOCK_TRIGGER + 1, BIOME_BLOCK_TRIGGER - 1, BIOME_BLOCK_TRIGGER}

ice_block == "ice"
snowgrass_block == "snowgrass"
sandstone_block == "sandstone"
gravel_block == "gravel"
clay_block == "clay"

\* 436-439: the vegetation tuples
world_type_trees == <<"OakTree", "BirchTree", "JungleTree">>
world_type_plants == <<"Pumpkin", "Potato", "Carrot", "WaterMelon">>
world_type_grass == <<"YFlowers", "Fern", "Rose", "WildGrass0", "WildGrass1", "Cactus",
                      "WildGrass2", "TallCactus", "WildGrass3", "WildGrass4",
                      "WildGrass5", "WildGrass6", "WildGrass7", "DesertGrass">>
island_type_grass == <<"YFlowers", "Rose", "Fern">>

Range(q) == {q[n] : n \in DOMAIN q}

\* 441: self.autogenerated_blocks = VEGETATION_BLOCKS (nature.py), the blocks
\* vegetation is made of
autogenerated_blocks ==
    Range(world_type_trees) \cup Range(world_type_plants) \cup Range(world_type_grass)

\* 427-434: the weighted pools, as the element at index n of each tuple
lowlevel_ores(n) ==
    IF n < 75 THEN stone_block ELSE IF n < 77 THEN "diamondore" ELSE "sapphireore"
midlevel_ores(n) ==
    IF n < 80 THEN stone_block ELSE IF n < 82 THEN "rubyore"
    ELSE IF n < 86 THEN "coalore" ELSE IF n < 91 THEN gravel_block
    ELSE IF n < 96 THEN "ironore" ELSE "lapisore"
highlevel_ores(n) ==
    IF n < 85 THEN stone_block ELSE IF n < 90 THEN gravel_block
    ELSE IF n < 93 THEN "coalore" ELSE "quartz"
underwater_blocks(n) ==
    IF n < 70 THEN sand_block ELSE IF n < 90 THEN gravel_block ELSE clay_block

\* 406, 521: self.rand, a random.Random: a deterministic stream, reseeded per
\* sector from seed + "(bx,by,bz)"; every draw advances it.
rand_seed(s, by) == (31 * s + 17 * by + 1) % 65537
rand_next(r) == (75 * r + 74) % 65537
\* choice(seq) of a tuple of length n: the index drawn
rand_index(r, n) == rand_next(r) % n

\* G.TREE_CHANCE, G.WILDFOOD_CHANCE, G.GRASS_CHANCE: thresholds on a draw of
\* random(), here on the draw's 65537 values
TREE_CHANCE == 65537 \div 8
WILDFOOD_CHANCE == 65537 \div 4
GRASS_CHANCE == 65537 \div 2

\* the seed the generator is built with
SectorSeeds == {0}

\* the columns, heights and sectors of the stack
Columns == (0 .. SectorWidth - 1) \X (0 .. SectorWidth - 1)
StackSectors == 0 .. 8
Positions == {<<p[1], h, p[2]>> : p \in Columns, h \in 0 .. 71}

\* world.savingsystem.sector_to_blockpos
sector_to_blockpos(k) == <<0, 8 * k, 0>>
\* sectorize (world.py): the sector a position lies in
sectorize(pos) == pos[2] \div 8

\* world.sectors[k], a list of positions, is kept as the membership map of
\* the positions of sector k: empty_list[k] is the list [], listed(sec, k)
\* the positions in sec[k]
SectorPositions ==
    [k \in StackSectors |-> {<<p[1], h, p[2]>> : p \in Columns, h \in 8 * k .. 8 * k + 7}]
empty_list == [k \in StackSectors |-> [pos \in SectorPositions[k] |-> FALSE]]
listed(sec, k) == {pos \in SectorPositions[k] : sec[k].list[pos]}

\* world.init_block(position, block): the block is set at the position and
\* the position is listed under its sector
init_block(st, pos, b) ==
    IF pos \notin Positions THEN st
    ELSE [world |-> [st.world EXCEPT ![pos] = b],
          sectors |-> [st.sectors EXCEPT ![sectorize(pos)] =
                          [present |-> TRUE, list |-> [@.list EXCEPT ![pos] = TRUE]]]]

\* world.generate_vegetation(position, kind): vegetation is placed at a free
\* position; an occupied one is left as it is
generate_vegetation(st, pos, kind) ==
    IF pos \notin Positions \/ st.world[pos] # NoBlock THEN st
    ELSE init_block(st, pos, kind)

\* 444-450: _clamp of the generator, on (y + 1.0) / 2.0 = a / 20; the value
\* times height_range (32), truncated by int(): 0.9999 * 32 truncates to 31
clamped_height(a) ==
    IF a > 20 THEN 31 ELSE IF a < 0 THEN 0 ELSE (32 * a) \div 20

\* 462 without self.height_base
get_height_unbased(g, cx, cz) ==
    (clamped_height(fBmField(g.seed, cx * g.zoom_level, 0, cz * g.zoom_level) + 10)
        * g.height_range) \div 32

\* 451-462: get_height.  The octave sum of self.noise is an fBm field of the
\* seed at (x, z) * zoom_level (zoom in 1/1000).
get_height(g, cx, cz) ==
    g.height_base
      + (clamped_height(fBmField(g.seed, cx * g.zoom_level, 0, cz * g.zoom_level) + 10)
            * g.height_range) \div 32

\* 465, 473-509: main_block for the theme
theme_main_block(th) ==
    IF th = "plains" THEN grass_block
    ELSE IF th = "snow" THEN snowgrass_block
    ELSE IF th = "desert" THEN sand_block
    ELSE IF th = "island" THEN grass_block
    ELSE IF th = "mountains" THEN stone_block
    ELSE grass_block

\* 473-509: the generator's fields after the theme's assignments
theme_params(g, th) ==
    IF th = "plains"
      THEN [g EXCEPT !.height_range = 32, !.height_base = 32, !.island_shore = 0,
                     !.water_level = 0, !.zoom_level = 2]
    ELSE IF th = "snow"
      THEN [g EXCEPT !.height_range = 32, !.height_base = 32, !.island_shore = 34,
                     !.water_level = 33, !.zoom_level = 2]
    ELSE IF th = "desert"
      THEN [g EXCEPT !.height_range = 32, !.height_base = 32, !.island_shore = 32,
                     !.water_level = 0, !.zoom_level = 2]
    ELSE IF th = "island"
      THEN [g EXCEPT !.world_type_grass = island_type_grass,
                     !.height_range = 32, !.height_base = 32, !.island_shore = 38,
                     !.water_level = 36, !.zoom_level = 2]
    ELSE IF th = "mountains"
      THEN [g EXCEPT !.height_range = 32, !.height_base = 32, !.island_shore = 18,
                     !.water_level = 20, !.zoom_level = 1]
    ELSE g

\* 563-568: the banding of main_block by height under the mountains theme
mountain_block(yy, mb) ==
    LET m1 == IF 0 <= yy /\ yy <= 35 THEN grass_block ELSE mb
        m2 == IF 36 <= yy /\ yy <= 54 THEN stone_block ELSE m1
    IN IF yy >= 55 THEN snow_block ELSE m2

\* 620-628: the ore fill "for yy in xrange(by, y)", from yy on; pt is the
\* painting state [st, r, mb].  (The stream's state is never negative: the
\* test on it has each round evaluated before the next is begun.)
RECURSIVE ore_fill(_, _, _, _, _)
ore_fill(pt, cx, cz, yy, top) ==
    IF yy >= top THEN pt
    ELSE LET b == IF yy >= 32 THEN highlevel_ores(rand_index(pt.r, 98))
                  ELSE IF yy > 8 THEN midlevel_ores(rand_index(pt.r, 98))
                  ELSE lowlevel_ores(rand_index(pt.r, 79))
             nxt == [pt EXCEPT !.st = init_block(pt.st, <<cx, yy, cz>>, b),
                               !.r = rand_next(pt.r)]
         IN IF nxt.r >= 0 THEN ore_fill(nxt, cx, cz, yy + 1, top) ELSE nxt

\* 570-585: the branch "y <= water_level"
below_water(pt, g, th, cx, cz, yy) ==
    LET wet ==
          IF th # "desert"
            THEN LET s1 == init_block(pt.st, <<cx, g.water_level, cz>>,
                                      IF th = "snow" THEN ice_block ELSE water_block)
                     s2 == init_block(s1, <<cx, g.water_level - 2, cz>>,
                                      underwater_blocks(rand_index(pt.r, 100)))
                     s3 == init_block(s2, <<cx, g.water_level - 3, cz>>, dirt_block)
                 IN [pt EXCEPT !.st = s3, !.r = rand_next(pt.r)]
            ELSE pt
        dry ==
          IF th = "desert"
            THEN LET s1 == init_block(wet.st, <<cx, yy + 1, cz>>, sand_block)
                     s2 == init_block(s1, <<cx, yy, cz>>, sand_block)
                     s3 == init_block(s2, <<cx, yy - 1, cz>>, sand_block)
                     s4 == init_block(s3, <<cx, yy - 2, cz>>, sandstone_block)
                     s5 == init_block(s4, <<cx, yy - 3, cz>>, sandstone_block)
                 IN [wet EXCEPT !.st = s5]
            ELSE wet
    IN dry

\* 586-618: the branch "elif y < bytop"
surface(pt, g, th, cx, cz, yy) ==
    LET mb == IF th = "island"
                THEN IF yy > g.island_shore THEN grass_block ELSE sand_block
                ELSE pt.mb
        s1 == init_block(pt.st, <<cx, yy, cz>>, mb)
        r1 == rand_next(pt.r)          \* 594: veget_choice = rand_random()
        veget_blocks ==
            IF r1 < TREE_CHANCE THEN world_type_trees
            ELSE IF r1 < WILDFOOD_CHANCE THEN world_type_plants
            ELSE IF r1 < GRASS_CHANCE THEN g.world_type_grass
            ELSE <<>>
        s2 == IF veget_blocks # <<>>
                THEN generate_vegetation(s1, <<cx, yy + 1, cz>>,
                         veget_blocks[rand_index(r1, Len(veget_blocks)) + 1])
                ELSE s1
        r2 == IF veget_blocks # <<>> THEN rand_next(r1) ELSE r1
        underground_blocks ==
            IF mb = sand_block THEN <<sand_block, sand_block, sandstone_block>>
            ELSE IF mb = stone_block THEN <<stone_block, stone_block, stone_block>>
            ELSE <<dirt_block, dirt_block, dirt_block>>
        s3 == init_block(s2, <<cx, yy - 1, cz>>, underground_blocks[1])
        s4 == init_block(s3, <<cx, yy - 2, cz>>, underground_blocks[2])
        s5 == init_block(s4, <<cx, yy - 3, cz>>, underground_blocks[3])
    IN [st |-> s5, r |-> r2, mb |-> mb]

\* 553-630: the body of the column loops for column (cx, cz)
paint_column(pt, g, th, by, cx, cz) ==
    LET bytop == by + 8
        top ==
          IF by < g.height_base
            THEN [pt |-> pt, y |-> g.height_base]
            ELSE LET h == get_height(g, cx, cz)
                     y1 == IF h > bytop THEN bytop ELSE h
                     p1 == IF th = "mountains"
                             THEN [pt EXCEPT !.mb = mountain_block(y1, pt.mb)]
                             ELSE pt
                 IN IF y1 <= g.water_level
                      THEN [pt |-> below_water(p1, g, th, cx, cz, y1), y |-> y1 - 3]
                    ELSE IF y1 < bytop
                      THEN [pt |-> surface(p1, g, th, cx, cz, y1), y |-> y1 - 3]
                    ELSE [pt |-> p1, y |-> y1]
        filled == ore_fill(top.pt, cx, cz, by, top.y)
    IN IF by = 0
         THEN [filled EXCEPT !.st = init_block(filled.st, <<cx, 0, cz>>, bed_block)]
         ELSE filled

\* 551-552: the column loops, x outer and z inner, from column number n on
RECURSIVE paint_columns(_, _, _, _, _)
paint_columns(pt, g, th, by, n) ==
    IF n >= SectorWidth * SectorWidth THEN pt
    ELSE LET nxt == paint_column(pt, g, th, by, n \div SectorWidth, n % SectorWidth)
         IN IF nxt.r >= 0 THEN paint_columns(nxt, g, th, by, n + 1) ELSE nxt

\* 466 with ">" and "<" for ">=" and "<="
reroll_due_strict(count) ==
    count > BIOME_BLOCK_TRIGGER \/ count < BIOME_NEGATIVE_BLOCK_TRIGGER

\* 466: the re-roll test
reroll_due(count) ==
    count >= BIOME_BLOCK_TRIGGER \/ count <= BIOME_NEGATIVE_BLOCK_TRIGGER

\* 512-515 skipping only a sector all of whose blocks are not vegetation
already_generated_all(sec, w, k) ==
    sec[k].present /\ listed(sec, k) # {}
        /\ \A pos \in listed(sec, k) : w[pos] \notin autogenerated_blocks

\* 512-515: the sector is present and holds a block that is not vegetation
already_generated(sec, w, k) ==
    sec[k].present
        /\ \E pos \in SectorPositions[k] : sec[k].list[pos] /\ w[pos] \notin autogenerated_blocks

\* 402-443: the generator after construction, over an empty world
InitSector ==
    /\ BIOME_BLOCK_COUNT = 0
    /\ TERRAIN_CHOICE \in Themes
    /\ gen \in {[seed |-> s, height_range |-> 32, height_base |-> 32, island_shore |-> 38,
                 water_level |-> 36, zoom_level |-> 2,
                 world_type_grass |-> world_type_grass] : s \in SectorSeeds}
    /\ world = [pos \in Positions |-> NoBlock]
    /\ sectors = [k \in StackSectors |-> [present |-> FALSE, list |-> empty_list[k]]]
    /\ op = [at |-> "new", rerolled |-> FALSE, painted |-> {}, steady |-> TRUE]

\* the sectors generate_sector is called with
Requested == {0, 3, 4, 5}

\* 464-630 with the guard of 511-515 moved before the re-roll of 466-471
generate_sector_guard_first(k) ==
    IF already_generated(sectors, world, k)
      THEN /\ op' = [op EXCEPT !.at = "515", !.rerolled = FALSE]
           /\ UNCHANGED <<BIOME_BLOCK_COUNT, TERRAIN_CHOICE, gen, world, sectors, notSector>>
      ELSE LET due == reroll_due(BIOME_BLOCK_COUNT)
           IN \E choice \in IF due THEN reroll_choices ELSE {TERRAIN_CHOICE} :
               LET g == theme_params(gen, choice)
                   by == sector_to_blockpos(k)[2]
                   st0 == [world |-> world,
                           sectors |-> [sectors EXCEPT
                                          ![k] = [present |-> TRUE, list |-> empty_list[k]]]]
                   painted ==
                       IF 0 <= by /\ by < g.height_base + g.height_range
                         THEN paint_columns([st |-> st0, r |-> rand_seed(g.seed, by),
                                             mb |-> theme_main_block(choice)],
                                            g, choice, by, 0).st
                         ELSE st0
               IN /\ BIOME_BLOCK_COUNT' = IF due THEN 0 ELSE BIOME_BLOCK_COUNT
                  /\ TERRAIN_CHOICE' = choice
                  /\ gen' = g
                  /\ world' = painted.world
                  /\ sectors' = painted.sectors
                  /\ op' = [at |-> "end", rerolled |-> due,
                            painted |-> op.painted \cup {k},
                            steady |-> op.steady /\ choice = TERRAIN_CHOICE]
                  /\ UNCHANGED notSector

\* 464-630: generate_sector(sector)
generate_sector(k) ==
    LET due == reroll_due(BIOME_BLOCK_COUNT)
    IN \E choice \in IF due THEN reroll_choices ELSE {TERRAIN_CHOICE} :
        LET g == theme_params(gen, choice)
            by == sector_to_blockpos(k)[2]
            st0 == [world |-> world,
                    sectors |-> [sectors EXCEPT ![k] = [present |-> TRUE, list |-> empty_list[k]]]]
            painted ==
                IF 0 <= by /\ by < g.height_base + g.height_range
                  THEN paint_columns([st |-> st0, r |-> rand_seed(g.seed, by),
                                      mb |-> theme_main_block(choice)],
                                     g, choice, by, 0).st
                  ELSE st0
        IN /\ BIOME_BLOCK_COUNT' = IF due THEN 0 ELSE BIOME_BLOCK_COUNT
           /\ TERRAIN_CHOICE' = choice
           /\ gen' = g
           /\ IF already_generated(sectors, world, k)
                THEN /\ UNCHANGED <<world, sectors>>
                     /\ op' = [at |-> "515", rerolled |-> due, painted |-> op.painted,
                               steady |-> op.steady /\ choice = TERRAIN_CHOICE]
                ELSE /\ world' = painted.world
                     /\ sectors' = painted.sectors
                     /\ op' = [at |-> "end", rerolled |-> due,
                               painted |-> op.painted \cup {k},
                               steady |-> op.steady /\ choice = TERRAIN_CHOICE]
           /\ UNCHANGED notSector

\* other code (world.py, the player) moving G.BIOME_BLOCK_COUNT between calls
count_blocks ==
    /\ \E c \in CounterValues \ {BIOME_BLOCK_COUNT} : BIOME_BLOCK_COUNT' = c
    /\ op' = [op EXCEPT !.at = "count", !.rerolled = FALSE]
    /\ UNCHANGED <<TERRAIN_CHOICE, gen, world, sectors, notSector>>

NextSector == (\E k \in Requested : generate_sector(k)) \/ count_blocks

-----------------------------------------------------------------------------
(***************************************************************************)
(* The specifications                                                      *)
(***************************************************************************)
IdlePerm ==
    /\ rand = 0 /\ noise_tbl = <<>> /\ perm = <<>> /\ i = 0
    /\ ppc = "idle" /\ weights = 0 /\ hashes = <<>>
IdleBiome == InitBiome
IdleDensity == den_at = <<>> /\ den_y = None /\ flatten = None /\ den_out = None
IdleLerp ==
    /\ d_map = <<>> /\ cell = <<>> /\ sampled = <<>>
    /\ lx = 0 /\ ly = 0 /\ lz = 0 /\ lpc = "idle"
IdleChunk ==
    /\ seed = 0 /\ chunk_pos = <<>> /\ x = 0 /\ z = 0 /\ y = None
    /\ biome_type = NoBlock /\ first_block = None /\ d_col = <<>>
    /\ blocks = <<>> /\ cpc = "idle"
IdleSector ==
    /\ BIOME_BLOCK_COUNT = 0 /\ TERRAIN_CHOICE = "idle" /\ gen = <<>>
    /\ world = <<>> /\ sectors = <<>> /\ op = <<>>

\* PerlinNoise: construction, then any calls of noise() and fBm()
StartPerm == InitPerm /\ IdleBiome /\ IdleDensity /\ IdleLerp /\ IdleChunk /\ IdleSector
SpecPerm == StartPerm /\ [][NextPerm]_vars

\* BiomeGenerator: any calls of get_biome_type
StartBiome == IdlePerm /\ InitBiome /\ IdleDensity /\ IdleLerp /\ IdleChunk /\ IdleSector
SpecBiome == StartBiome /\ [][NextBiome]_vars

\* TerrainGenerator.density: any calls
StartDensity == IdlePerm /\ IdleBiome /\ InitDensity /\ IdleLerp /\ IdleChunk /\ IdleSector
SpecDensity == StartDensity /\ [][NextDensity]_vars

\* tri_lerp_d_map on one cell of a sampled d_map
StartLerp == IdlePerm /\ IdleBiome /\ IdleDensity /\ InitLerp /\ IdleChunk /\ IdleSector
SpecLerp == StartLerp /\ [][NextLerp]_vars

\* generate_chunk: one call, column by column
StartChunk == IdlePerm /\ IdleBiome /\ IdleDensity /\ IdleLerp /\ InitChunk /\ IdleSector
SpecChunk == StartChunk /\ [][NextChunk]_vars

\* generate_sector: any calls on the stack, the counter moving in between
StartSector == IdlePerm /\ IdleBiome /\ IdleDensity /\ IdleLerp /\ IdleChunk /\ InitSector
SpecSector == StartSector /\ [][NextSector]_vars

-----------------------------------------------------------------------------
(***************************************************************************)
(* The properties                                                          *)
(***************************************************************************)

\* C6: once PerlinNoise.__init__ has run, perm[0..255] holds each of 0..255
\* exactly once and perm[i + 256] = perm[i]; no call of noise() or fBm()
\* changes the table.
PermIsBijection ==
    /\ \A v \in 0 .. PERM_SIZE - 1 :
          Cardinality({k \in 0 .. PERM_SIZE - 1 : perm[k] = v}) = 1
    /\ \A k \in 0 .. PERM_SIZE - 1 : perm[k + PERM_SIZE] = perm[k]
PermutationValid ==
    /\ [](ppc = "ready" => PermIsBijection)
    /\ [][ppc = "ready" => perm' = perm]_vars

\* C6 witness: a shuffled table (not the identity) that noise() has read
PermutationWitness ==
    /\ ppc = "ready"
    /\ hashes # <<>>
    /\ \E k \in 0 .. PERM_SIZE - 1 : perm[k] # k

\* C4: get_biome_type returns exactly one biome, the one of the first rule of
\* the table that (temperature, humidity * temperature) satisfies, for every
\* temperature and raw humidity in [0, 1].
BiomeFollowsTable ==
    biome # NoBlock =>
        LET desert == temp >= 10 /\ humidity < 120
            plains == ~desert /\ 120 <= humidity /\ humidity <= 240 /\ temp >= 10
            snowy == ~desert /\ ~plains /\ temp <= 6 /\ humidity > 200
            mount == ~desert /\ ~plains /\ ~snowy
                       /\ 80 <= humidity /\ humidity <= 240 /\ temp < 10
        IN /\ 0 <= temp /\ temp <= 20
           /\ 0 <= raw_humidity /\ raw_humidity <= 20
           /\ humidity = raw_humidity * temp
           /\ biome \in {DESERT, PLAINS, SNOW, MOUNTAINS, FOREST}
           /\ (biome = DESERT) <=> desert
           /\ (biome = PLAINS) <=> plains
           /\ (biome = SNOW) <=> snowy
           /\ (biome = MOUNTAINS) <=> mount
           /\ (biome = FOREST) <=> ~(desert \/ plains \/ snowy \/ mount)

\* C4 witness: a call on the Desert/Plains border, temperature 0.5 and
\* humidity * temperature exactly 0.3, classified Plains
BiomeBorderWitness ==
    biome = PLAINS /\ temp = 10 /\ humidity = 120

\* C10: for every height y the flatten factor of density() is
\* clamp01((CHUNK_Y_SIZE - 16 - y) / (CHUNK_Y_SIZE * 0.10)), a gradual taper
\* (compared in 1/256: (240 - y) / 25.6 = 10 (240 - y) / 256).
FlattenIsTaper ==
    den_y # None => 256 * flatten = Max(0, Min(256, 10 * ((CHUNK_Y_SIZE - 16) - den_y)))

\* C5: tri_lerp_d_map leaves every sampled entry equal to its density()
\* sample and gives every other entry of the chunk a value between the
\* minimum and the maximum of the 8 samples at the corners of its cell.
InterpolationCorrect ==
    LET low == CHOOSE v \in {sampled[c] : c \in Corners(cell)} :
                   \A c \in Corners(cell) : v <= sampled[c]
        high == CHOOSE v \in {sampled[c] : c \in Corners(cell)} :
                   \A c \in Corners(cell) : v >= sampled[c]
    IN /\ \A c \in Corners(cell) : d_map[c] = <<sampled[c]>>
       /\ \A p \in CellPoints(cell) :
             /\ lpc = "done" => d_map[p] # NoneD
             /\ d_map[p] # NoneD => low <= d_map[p][1] /\ d_map[p][1] <= high

\* C5 witness: a finished cell whose samples differ, with an entry strictly
\* between the least and the greatest of them
InterpolationWitness ==
    /\ lpc = "done"
    /\ \E p \in CellPoints(cell) :
          /\ \E c \in Corners(cell) : sampled[c] < d_map[p][1]
          /\ \E c \in Corners(cell) : sampled[c] > d_map[p][1]

\* C1: every column of the generated chunk has the bedrock block at y = 0.
BedrockAtY0 ==
    cpc \in {"col_done", "done"} => blocks[0] = bed_block

\* C9: the biome a column is painted with is the biome at the column's world
\* position (chunk origin + x, chunk origin + z).
BiomeAtWorldPosition ==
    cpc = "voxel" => biome_type = column_biome_world(seed, chunk_pos, x, z)

\* the voxel the scan has just left (None: none yet in this column)
Scanned ==
    IF cpc = "col_done" THEN y
    ELSE IF cpc = "voxel" /\ y < CHUNK_Y_SIZE - 1 THEN y + 1
    ELSE None

\* C7: after a voxel of density >= 0, first_block is the top of the maximal
\* run of voxels of density >= 0 that holds it (so the depth first_block - y
\* is >= 0); after a voxel of density < 0 it is -1.
FirstBlockIsRunTop ==
    Scanned # None =>
        IF d_col[Scanned] >= 0
          THEN /\ first_block \in Scanned .. CHUNK_Y_SIZE - 1
               /\ \A k \in Scanned .. first_block : d_col[k] >= 0
               /\ first_block = CHUNK_Y_SIZE - 1 \/ d_col[first_block + 1] < 0
          ELSE first_block = -1

\* C7 witness: inside a second run of the column, below an air gap
FirstBlockWitness ==
    /\ Scanned # None
    /\ d_col[Scanned] >= 0
    /\ first_block > Scanned
    /\ \E k \in first_block + 2 .. CHUNK_Y_SIZE - 1 : d_col[k] >= 0

RECURSIVE RunTop(_, _)
RunTop(col, k) ==
    IF k < CHUNK_Y_SIZE - 1 /\ col[k + 1] >= 0 THEN RunTop(col, k + 1) ELSE k

\* C8: in a painted column the block of every voxel 1..255 is the one of its
\* density branch: interior (density >= 32) stone or carved air, shell
\* (0 <= density < 32) the outer-layer block or carved air, density < 0 water
\* up to y = 32 and unset above; so no voxel of density >= 0 is water.
BlockByDensityBranch ==
    cpc = "col_done" =>
        \A k \in 1 .. CHUNK_Y_SIZE - 1 :
            LET den == d_col[k]
                cave == cave_density(seed, chunk_pos[1] + x, k, chunk_pos[3] + z)
            IN /\ den >= 32 * DEN_UNIT =>
                     blocks[k] = IF cave > -6 THEN stone_block ELSE air_block
               /\ (0 <= den /\ den < 32 * DEN_UNIT) =>
                     blocks[k] = IF cave > -7
                                   THEN gen_outer_layer(k, RunTop(d_col, k), biome_type)
                                   ELSE air_block
               /\ den < 0 => blocks[k] = IF k <= 32 THEN water_block ELSE NoBlock
               /\ den >= 0 => blocks[k] # water_block

\* C8 witness: a painted column with, at or below sea level, a shell voxel
\* painted solid and a voxel of negative density holding water, and with an
\* interior voxel carved to air
BlockBranchWitness ==
    /\ cpc = "col_done"
    /\ \E k \in 1 .. 32 : /\ 0 <= d_col[k] /\ d_col[k] < 32 * DEN_UNIT
                          /\ blocks[k] \notin {water_block, air_block, NoBlock}
    /\ \E k \in 1 .. 32 : d_col[k] < 0 /\ blocks[k] = water_block
    /\ \E k \in 1 .. CHUNK_Y_SIZE - 1 : d_col[k] >= 32 * DEN_UNIT /\ blocks[k] = air_block

\* C2: a generate_sector call on a sector that is present in world.sectors
\* and lists a block that is not vegetation returns at the guard (line 515):
\* it makes no init_block or generate_vegetation call and leaves the world
\* and world.sectors as they were, so a second call in a row changes nothing.
GeneratedSectorUntouched ==
    [][\A k \in Requested :
          (/\ sectors[k].present
           /\ \E pos \in SectorPositions[k] :
                  /\ sectors[k].list[pos]
                  /\ world[pos] # NoBlock /\ world[pos] \notin autogenerated_blocks
           /\ generate_sector(k))
          => (op'.at = "515" /\ world' = world /\ sectors' = sectors)]_vars

\* C2 witness: a call has returned at the guard of a sector that lists both
\* vegetation and a block that is not vegetation
GuardSkipWitness ==
    /\ op.at = "515"
    /\ \E k \in Requested :
          /\ sectors[k].present
          /\ \E pos \in listed(sectors, k) : world[pos] \in autogenerated_blocks
          /\ \E pos \in listed(sectors, k) : world[pos] \notin autogenerated_blocks

\* C3: a generate_sector call entered with BIOME_BLOCK_COUNT >= 215 or
\* <= -215 sets the counter to 0 and TERRAIN_CHOICE to one of plains,
\* desert, mountains, snow (never island); a call entered with the counter
\* strictly between the triggers leaves the counter and TERRAIN_CHOICE alone.
RerollOnTrigger ==
    [][op'.at \in {"515", "end"} =>
          IF BIOME_BLOCK_COUNT >= 215 \/ BIOME_BLOCK_COUNT <= 0 - 215
            THEN /\ BIOME_BLOCK_COUNT' = 0
                 /\ TERRAIN_CHOICE' \in {"plains", "desert", "mountains", "snow"}
                 /\ op'.rerolled
            ELSE /\ BIOME_BLOCK_COUNT' = BIOME_BLOCK_COUNT
                 /\ TERRAIN_CHOICE' = TERRAIN_CHOICE
                 /\ ~op'.rerolled]_vars

\* C3 witness: a call that re-rolled the theme and went on to paint, after
\* which the counter is 0 and the theme is snow
RerollWitness ==
    /\ op.rerolled /\ op.at = "end"
    /\ BIOME_BLOCK_COUNT = 0 /\ TERRAIN_CHOICE = "snow"
    /\ \E pos \in Positions : world[pos] = ice_block

\* C11: with the theme held fixed, the guard of lines 511-515 holds for a
\* sector (the sector is present and lists a block that is not vegetation)
\* only if an earlier generate_sector call on that very sector painted it:
\* blocks that calls on other sectors of the stack write into it never make
\* a sector that was not generated yet be skipped.
SkippedOnlyIfPainted ==
    op.steady =>
        \A k \in Requested :
            (/\ sectors[k].present
             /\ \E pos \in SectorPositions[k] :
                    /\ sectors[k].list[pos]
                    /\ world[pos] # NoBlock /\ world[pos] \notin autogenerated_blocks)
            => k \in op.painted

\* C12: get_biome_type never returns Snow: the humidity it tests is
\* raw humidity * temperature, at most the temperature, so the Snow rule
\* (temperature <= 0.3 and humidity > 0.5) is met by no input and the result
\* is one of Desert, Plains, Mountains, Forest.
SnowNeverReturned ==
    biome # NoBlock =>
        /\ biome \in {DESERT, PLAINS, MOUNTAINS, FOREST}
        /\ humidity <= 20 * temp
        /\ ~(temp <= 6 /\ humidity > 200)

\* C12 witness: a call with temperature <= 0.3 and raw humidity > 0.5, the
\* point the Snow rule is written for, classified Mountains
ColdWetWitness ==
    biome = MOUNTAINS /\ temp <= 6 /\ temp > 0 /\ raw_humidity > 10

\* C13: the re-roll (466-471) and the theme's parameter assignments
\* (473-509) run before the guard (511-515): a generate_sector call on an
\* already generated sector, entered with the counter at a trigger, leaves
\* the world and world.sectors as they were, yet sets BIOME_BLOCK_COUNT to
\* 0, draws TERRAIN_CHOICE anew from the four themes and overwrites the
\* generator's height, shore, water and zoom parameters with the new
\* theme's values.
SkippedCallStillRerolls ==
    [][\A k \in Requested :
          (/\ op'.at # "count"
           /\ BIOME_BLOCK_COUNT >= BIOME_BLOCK_TRIGGER
                \/ BIOME_BLOCK_COUNT <= BIOME_NEGATIVE_BLOCK_TRIGGER
           /\ sectors[k].present
           /\ \E pos \in SectorPositions[k] :
                  /\ sectors[k].list[pos]
                  /\ world[pos] # NoBlock /\ world[pos] \notin autogenerated_blocks
           /\ generate_sector(k))
          => LET th == TERRAIN_CHOICE'
             IN /\ op'.at = "515" /\ world' = world /\ sectors' = sectors
                /\ BIOME_BLOCK_COUNT' = 0
                /\ th \in {"plains", "desert", "mountains", "snow"}
                /\ gen'.height_range = 32 /\ gen'.height_base = 32
                /\ gen'.water_level = IF th = "snow" THEN 33
                                      ELSE IF th = "mountains" THEN 20 ELSE 0
                /\ gen'.island_shore = IF th = "snow" THEN 34
                                       ELSE IF th = "desert" THEN 32
                                       ELSE IF th = "mountains" THEN 18 ELSE 0
                /\ gen'.zoom_level = IF th = "mountains" THEN 1 ELSE 2]_vars

\* C13 witness: the one painting call ran under the island theme (it placed
\* water); a later call returned at the guard after a re-roll, and the
\* theme is now snow with snow's water level, the counter 0
SkippedRerollWitness ==
    /\ op.at = "515" /\ op.rerolled /\ ~op.steady
    /\ Cardinality(op.painted) = 1
    /\ \E pos \in Positions : world[pos] = water_block
    /\ BIOME_BLOCK_COUNT = 0 /\ TERRAIN_CHOICE = "snow" /\ gen.water_level = 33

\* C14: the branch "y <= water_level" (570-585) is taken only under the
\* snow and island themes.  A generate_sector call that paints under plains,
\* desert or mountains places no water and no ice, and for every column of
\* every sector with by >= height_base the column top min(get_height, bytop)
\* is at least 32 and above the theme's water_level, so neither the water
\* lines nor the desert sand/sandstone stamp of that branch are executed.
WaterBranchOnlySnowIsland ==
    [][(op'.at = "end" /\ TERRAIN_CHOICE' \in {"plains", "desert", "mountains"})
          => /\ \A pos \in Positions :
                    world'[pos] \in {water_block, ice_block} => world'[pos] = world[pos]
             /\ gen'.water_level <= 20
             /\ \A k \in Requested, c \in Columns :
                    8 * k >= gen'.height_base
                       => /\ get_height(gen', c[1], c[2]) >= 32
                          /\ Min(get_height(gen', c[1], c[2]), 8 * k + 8) > gen'.water_level]_vars

\* C14 witness: one sector was painted under snow (ice lies in the world),
\* then the theme was re-rolled to mountains and the latest call painted a
\* sector at or above height_base under it
DryThemePaintWitness ==
    /\ op.at = "end" /\ op.rerolled /\ TERRAIN_CHOICE = "mountains"
    /\ op.painted = {4, 5}
    /\ \E pos \in Positions : world[pos] = ice_block
    /\ \E pos \in Positions : world[pos] = snow_block \/ world[pos] = stone_block

=============================================================================
